---- MODULE Spec2Model ----
(***************************************************************************)
(* The snapshot visualization engine of viz-core.js:                       *)
(* createSnapshotVisualization (manual stepping, animated transitions,     *)
(* reset) wired to createVisualizationAutoplaySkill (timer-driven          *)
(* autoplay).  Time is performance.now() in milliseconds.                  *)
(***************************************************************************)
EXTENDS Integers, Sequences, FiniteSets, TLC

VARIABLES
    now,            \* performance.now(), ms
    pageVisible,    \* document.visibilityState === 'visible'
    panelHidden,    \* canvas.closest('.algo-item').hidden
    toggles,        \* how often the page or the panel has been hidden or shown
    cfg,            \* construction options and what construction found
    snapshots,      \* let snapshots
    state,          \* const state = { stepIndex, animation }
    dom,            \* statusEl / prevBtn / nextBtn / resetBtn as last written
    raf,            \* number of tick callbacks queued with requestAnimationFrame
    ap,             \* closure of createVisualizationAutoplaySkill
    obs             \* observations of the run (history only, never read by the code)

vars == <<now, pageVisible, panelHidden, toggles, cfg, snapshots, state, dom, raf, ap, obs>>

(* ───── program constants ───── *)
TICK_MS == 120
DT_CAP == 250
stepInterval == 1000
donePause == 1800
animationMs == 700

(* ───── bounds of the model ───── *)
MaxLen == 3          \* longest sequence the snapshot factory returns
MaxTime == 3000      \* the clock stops here
MaxRaf == 2          \* most tick callbacks queued at once
MaxToggles == 2      \* most changes of page visibility and panel hiding
StartTime == 10      \* performance.now() when the engine is constructed

\* granularity at which the clock is observed
Quantum == TICK_MS

Min(a, b) == IF a < b THEN a ELSE b
Max(a, b) == IF a > b THEN a ELSE b

(* ───── snapshot factory ───── *)

\* A snapshot is its text; the factory's sequence of length n.
SnapshotsOfLen(n) == [i \in 1..n |-> n * 10 + i]

\* What buildSnapshots() may return: an array of 0..MaxLen snapshots, or a non-array.
BuildOutputs ==
    {[isArray |-> TRUE, items |-> SnapshotsOfLen(n)] : n \in 0..MaxLen}
        \cup {[isArray |-> FALSE, items |-> <<>>]}

\* buildSnapshots() is called by a reset only when shouldRebuild is set.
NotCalled == [isArray |-> FALSE, items |-> <<>>]
Rebuilds(shouldRebuild) == IF shouldRebuild THEN BuildOutputs ELSE {NotCalled}

\* !Array.isArray(x) || x.length === 0
Unusable(built) == ~built.isArray \/ Len(built.items) = 0

(* ───── math helpers ───── *)

\* clamp01((ts - startTs) / animationMs), kept as the numerator over animationMs
clamp01(elapsed) == Max(0, Min(animationMs, elapsed))

(* ───── engine ───── *)

NullAnimation == [active |-> FALSE, toIndex |-> 0, startTs |-> 0, progress |-> 0]

NoLabel == <<>>

\* The engine's mutable parts as one value: e.snapshots, e.state, e.dom, e.raf.
Engine == [snapshots |-> snapshots, state |-> state, dom |-> dom, raf |-> raf]

\* snapshots[k] of the code: e.snapshots[k + 1] here, undefined out of range.
Defined(e, k) == k + 1 \in DOMAIN e.snapshots

\* render() that counts the snapshots, not the steps, in the step label.
render_CountsSnapshots(e) ==
    IF ~Defined(e, e.state.stepIndex)
          \/ (e.state.animation.active /\ ~Defined(e, e.state.animation.toIndex))
    THEN e
    ELSE
    LET snapshot == e.snapshots[e.state.stepIndex + 1]
        toSnapshot == IF e.state.animation.active
                      THEN e.snapshots[e.state.animation.toIndex + 1]
                      ELSE snapshot
        activeSnap == IF e.state.animation.active THEN toSnapshot ELSE snapshot
        total == Len(e.snapshots)
        stepLabel == IF e.state.stepIndex <= 0 THEN NoLabel
                     ELSE IF e.state.stepIndex >= total THEN <<total, total>>
                     ELSE <<e.state.stepIndex, total>>
    IN [e EXCEPT !.dom.statusText = [label |-> stepLabel, text |-> activeSnap, message |-> ""],
                 !.dom.prevDisabled = (e.state.stepIndex <= 0 \/ e.state.animation.active),
                 !.dom.nextDisabled = (e.state.stepIndex >= Len(e.snapshots) - 1
                                        \/ e.state.animation.active)]

\* render(): status text and button enablement from the session state.  Reading
\* .text of an undefined snapshot throws before anything is written.
render(e) ==
    IF ~Defined(e, e.state.stepIndex)
          \/ (e.state.animation.active /\ ~Defined(e, e.state.animation.toIndex))
    THEN e
    ELSE
    LET snapshot == e.snapshots[e.state.stepIndex + 1]
        toSnapshot == IF e.state.animation.active
                      THEN e.snapshots[e.state.animation.toIndex + 1]
                      ELSE snapshot
        activeSnap == IF e.state.animation.active THEN toSnapshot ELSE snapshot
        total == Len(e.snapshots) - 1
        stepLabel == IF e.state.stepIndex <= 0 THEN NoLabel
                     ELSE IF e.state.stepIndex >= total THEN <<total, total>>
                     ELSE <<e.state.stepIndex, total>>
    IN [e EXCEPT !.dom.statusText = [label |-> stepLabel, text |-> activeSnap, message |-> ""],
                 !.dom.prevDisabled = (e.state.stepIndex <= 0 \/ e.state.animation.active),
                 !.dom.nextDisabled = (e.state.stepIndex >= Len(e.snapshots) - 1
                                        \/ e.state.animation.active)]

\* resetToStart that leaves the transition record in place.
resetToStart_KeepAnimation(e, shouldRebuild, rebuilt) ==
    IF shouldRebuild /\ Unusable(rebuilt) THEN e
    ELSE render([e EXCEPT !.snapshots = IF shouldRebuild THEN rebuilt.items ELSE @,
                          !.state.stepIndex = 0])

\* resetToStart that rewinds even when the rebuilt sequence is unusable.
resetToStart_NoGuard(e, shouldRebuild, rebuilt) ==
    render([e EXCEPT !.snapshots = IF shouldRebuild /\ ~Unusable(rebuilt)
                                   THEN rebuilt.items ELSE @,
                     !.state.stepIndex = 0,
                     !.state.animation = NullAnimation])

\* resetToStart(shouldRebuild); rebuilt is what buildSnapshots() returns if called.
resetToStart(e, shouldRebuild, rebuilt) ==
    IF shouldRebuild /\ Unusable(rebuilt) THEN e
    ELSE render([e EXCEPT !.snapshots = IF shouldRebuild THEN rebuilt.items ELSE @,
                          !.state.stepIndex = 0,
                          !.state.animation = NullAnimation])

\* tick that lands the transition at the first frame, whatever its progress.
tick_LandsAtOnce(e, ts) ==
    IF ~e.state.animation.active THEN e
    ELSE render([e EXCEPT !.state.stepIndex = e.state.animation.toIndex,
                          !.state.animation = NullAnimation])

\* tick that waits for a progress above 1, which clamp01 never gives.
tick_NeverLands(e, ts) ==
    IF ~e.state.animation.active THEN e
    ELSE LET p == clamp01(ts - e.state.animation.startTs)
             e2 == render([e EXCEPT !.state.animation.progress = p])
         IN [e2 EXCEPT !.raf = @ + 1]

\* tick(ts): one animation frame of the running transition.
tick(e, ts) ==
    IF ~e.state.animation.active THEN e
    ELSE LET p == clamp01(ts - e.state.animation.startTs)
             e1 == IF p >= animationMs
                   THEN [e EXCEPT !.state.stepIndex = e.state.animation.toIndex,
                                  !.state.animation = NullAnimation]
                   ELSE [e EXCEPT !.state.animation.progress = p]
             e2 == render(e1)
         IN IF e2.state.animation.active THEN [e2 EXCEPT !.raf = @ + 1] ELSE e2

\* runStepAnimation that animates whatever the reduced-motion preference.
runStepAnimation_AlwaysAnimate(e, targetIndex, ts) ==
    IF e.state.animation.active \/ targetIndex <= e.state.stepIndex
    THEN render([e EXCEPT !.state.stepIndex = targetIndex])
    ELSE [e EXCEPT !.state.animation =
                       [active |-> TRUE, toIndex |-> targetIndex, startTs |-> ts,
                        progress |-> 0],
                   !.raf = @ + 1]

\* runStepAnimation that never animates.
runStepAnimation_Sync(e, targetIndex, ts) ==
    render([e EXCEPT !.state.stepIndex = targetIndex])

\* runStepAnimation(targetIndex) called at time ts.
runStepAnimation(e, targetIndex, ts) ==
    IF e.state.animation.active \/ targetIndex <= e.state.stepIndex \/ cfg.reduceMotion
    THEN render([e EXCEPT !.state.stepIndex = targetIndex])
    ELSE [e EXCEPT !.state.animation =
                       [active |-> TRUE, toIndex |-> targetIndex, startTs |-> ts,
                        progress |-> 0],
                   !.raf = @ + 1]

\* stepForward without the upper-boundary guard.
stepForward_NoCeiling(e, ts) ==
    IF e.state.animation.active THEN e
    ELSE runStepAnimation(e, e.state.stepIndex + 1, ts)

\* stepForward without the transition-in-flight guard.
stepForward_NoBusyCheck(e, ts) ==
    IF e.state.stepIndex >= Len(e.snapshots) - 1 THEN e
    ELSE runStepAnimation(e, e.state.stepIndex + 1, ts)

stepForward(e, ts) ==
    IF e.state.stepIndex >= Len(e.snapshots) - 1 \/ e.state.animation.active THEN e
    ELSE runStepAnimation(e, e.state.stepIndex + 1, ts)

\* stepBackward without the lower-boundary guard.
stepBackward_NoFloor(e) ==
    IF e.state.animation.active THEN e
    ELSE render([e EXCEPT !.state.stepIndex = @ - 1])

stepBackward(e) ==
    IF e.state.stepIndex <= 0 \/ e.state.animation.active THEN e
    ELSE render([e EXCEPT !.state.stepIndex = @ - 1])

(* ───── autoplay ───── *)

\* schedule(delay) that arms no timer.
schedule_Dropped(a, delay, ts) == [a EXCEPT !.timeoutId = 0]

\* schedule(delay) at time ts: arm the timer unless stopped.
schedule(a, delay, ts) ==
    IF a.stopped THEN a ELSE [a EXCEPT !.timeoutId = 1, !.due = ts + delay]

\* isActive that forgets the page's visibility.
isActive_PanelOnly == ~panelHidden

\* The callbacks createSnapshotVisualization hands to the autoplay skill.
\* isActive that forgets the hidden panel.
isActive_PageOnly == pageVisible
isActive == pageVisible /\ ~panelHidden
isBusy(e) == e.state.animation.active
\* isDone that takes the last but one index for the terminal one.
isDone_OffByOne(e) == e.state.stepIndex >= Len(e.snapshots) - 2
isDone(e) == e.state.stepIndex >= Len(e.snapshots) - 1
onStep(e, ts) ==
    IF e.state.stepIndex >= Len(e.snapshots) - 1 \/ e.state.animation.active THEN e
    ELSE runStepAnimation(e, e.state.stepIndex + 1, ts)
onReset(e, rebuilt) == resetToStart(e, cfg.rebuildSnapshotsOnReset, rebuilt)

\* acc %= stepInterval, and the same left out.
wrapAcc_Keep(acc) == acc
wrapAcc(acc) == acc % stepInterval

\* loop() that does not look at pauseUntil.
loop_NoPause(a, e, ts, active, rebuilt) ==
    IF a.stopped THEN [ap |-> a, e |-> e]
    ELSE IF ~active
    THEN [ap |-> schedule([a EXCEPT !.prev = ts, !.acc = 0], TICK_MS, ts), e |-> e]
    ELSE IF a.prev = 0
    THEN [ap |-> schedule([a EXCEPT !.prev = ts], TICK_MS, ts), e |-> e]
    ELSE LET dt == Min(DT_CAP, ts - a.prev)
             a1 == [a EXCEPT !.prev = ts]
         IN IF isBusy(e) THEN [ap |-> schedule(a1, TICK_MS, ts), e |-> e]
            ELSE LET a2 == [a1 EXCEPT !.acc = @ + dt]
                 IN IF a2.acc < stepInterval
                    THEN [ap |-> schedule(a2, TICK_MS, ts), e |-> e]
                    ELSE LET a3 == [a2 EXCEPT !.acc = wrapAcc(@)]
                         IN IF isDone(e)
                            THEN [ap |-> schedule([a3 EXCEPT !.pauseUntil = ts + donePause],
                                                  TICK_MS, ts),
                                  e |-> onReset(e, rebuilt)]
                            ELSE [ap |-> schedule(a3, TICK_MS, ts), e |-> onStep(e, ts)]

\* loop() run at time ts; returns the closure and the engine it leaves behind.
loop(a, e, ts, active, rebuilt) ==
    IF a.stopped THEN [ap |-> a, e |-> e]
    ELSE IF ~active
    THEN [ap |-> schedule([a EXCEPT !.prev = ts, !.acc = 0], TICK_MS, ts), e |-> e]
    ELSE IF a.prev = 0
    THEN [ap |-> schedule([a EXCEPT !.prev = ts], TICK_MS, ts), e |-> e]
    ELSE LET dt == Min(DT_CAP, ts - a.prev)
             a1 == [a EXCEPT !.prev = ts]
         IN IF ts < a1.pauseUntil THEN [ap |-> schedule(a1, TICK_MS, ts), e |-> e]
            ELSE IF isBusy(e) THEN [ap |-> schedule(a1, TICK_MS, ts), e |-> e]
            ELSE LET a2 == [a1 EXCEPT !.acc = @ + dt]
                 IN IF a2.acc < stepInterval
                    THEN [ap |-> schedule(a2, TICK_MS, ts), e |-> e]
                    ELSE LET a3 == [a2 EXCEPT !.acc = wrapAcc(@)]
                         IN IF isDone(e)
                            THEN [ap |-> schedule([a3 EXCEPT !.pauseUntil = ts + donePause],
                                                  TICK_MS, ts),
                                  e |-> onReset(e, rebuilt)]
                            ELSE LET e1 == onStep(e, ts)
                                     a4 == IF isDone(e1)
                                           THEN [a3 EXCEPT !.pauseUntil = ts + donePause]
                                           ELSE a3
                                 IN [ap |-> schedule(a4, TICK_MS, ts), e |-> e1]

\* createVisualizationAutoplaySkill without the enabled guard.
createVisualizationAutoplaySkill_NoGuard(enabled, ts) ==
    schedule([enabled |-> TRUE, prev |-> 0, acc |-> 0, pauseUntil |-> 0,
              stopped |-> FALSE, timeoutId |-> 0, due |-> 0], 0, ts)

\* createVisualizationAutoplaySkill(...) called at time ts.
createVisualizationAutoplaySkill(enabled, ts) ==
    LET a == [enabled |-> enabled, prev |-> 0, acc |-> 0, pauseUntil |-> 0,
              stopped |-> FALSE, timeoutId |-> 0, due |-> 0]
    IN IF ~enabled THEN a ELSE schedule(a, 0, ts)

TimerPending == ap.enabled /\ ~ap.stopped /\ ap.timeoutId # 0

(* ───── keyboard ───── *)

Keys == {"ArrowRight", "ArrowDown", "ArrowLeft", "ArrowUp", "r", "R", "Enter"}
Tags == {"BODY", "SELECT", "INPUT", "TEXTAREA"}

\* The document keydown listener.
keydown(e, key, tag, ts, rebuilt) ==
    IF panelHidden THEN e
    ELSE IF tag \in {"SELECT", "INPUT", "TEXTAREA"} THEN e
    ELSE IF key \in {"ArrowRight", "ArrowDown"} THEN stepForward(e, ts)
    ELSE IF key \in {"ArrowLeft", "ArrowUp"} THEN stepBackward(e)
    ELSE IF key \in {"r", "R"} THEN resetToStart(e, cfg.rebuildSnapshotsOnReset, rebuilt)
    ELSE e

(* ───── construction ───── *)

\* The elements as the page's markup leaves them.  statusEl.textContent is kept as
\* its parts: the step label, the snapshot text, or a fixed message.
PageDom == [statusText |-> [label |-> NoLabel, text |-> 0, message |-> ""], isError |-> FALSE,
            prevDisabled |-> FALSE, nextDisabled |-> FALSE, resetDisabled |-> FALSE]

\* createSnapshotVisualization that shows the empty-sequence error and goes on to
\* wire the listeners and autoplay instead of returning.
createSnapshotVisualization_NoReturn(found, ctxOk, reduce, rebuild, built, ts) ==
    LET base == [cfg |-> [reduceMotion |-> reduce, rebuildSnapshotsOnReset |-> rebuild,
                          listening |-> FALSE],
                 snapshots |-> <<>>,
                 state |-> [stepIndex |-> 0, animation |-> NullAnimation],
                 dom |-> PageDom,
                 raf |-> 0,
                 ap |-> createVisualizationAutoplaySkill(FALSE, ts)]
        shown == IF Unusable(built)
                 THEN [PageDom EXCEPT !.statusText.message = "No snapshots to display.",
                                      !.isError = TRUE,
                                      !.prevDisabled = TRUE,
                                      !.nextDisabled = TRUE,
                                      !.resetDisabled = TRUE]
                 ELSE PageDom
    IN IF ~found THEN base
       ELSE IF ~ctxOk
       THEN [base EXCEPT !.dom.statusText.message = "Canvas 2D is not available.",
                         !.dom.isError = TRUE]
       ELSE LET e == render([snapshots |-> built.items,
                             state |-> [stepIndex |-> 0, animation |-> NullAnimation],
                             dom |-> shown, raf |-> 0])
            IN [cfg |-> [reduceMotion |-> reduce, rebuildSnapshotsOnReset |-> rebuild,
                         listening |-> TRUE],
                snapshots |-> e.snapshots, state |-> e.state, dom |-> e.dom, raf |-> e.raf,
                ap |-> createVisualizationAutoplaySkill(~reduce, ts)]

\* createSnapshotVisualization(...): found = all five elements exist, ctxOk = the
\* canvas gives a 2D context, built = what buildSnapshots() returns.
createSnapshotVisualization(found, ctxOk, reduce, rebuild, built, ts) ==
    LET base == [cfg |-> [reduceMotion |-> reduce, rebuildSnapshotsOnReset |-> rebuild,
                          listening |-> FALSE],
                 snapshots |-> <<>>,
                 state |-> [stepIndex |-> 0, animation |-> NullAnimation],
                 dom |-> PageDom,
                 raf |-> 0,
                 ap |-> createVisualizationAutoplaySkill(FALSE, ts)]
    IN IF ~found THEN base
       ELSE IF ~ctxOk
       THEN [base EXCEPT !.dom.statusText.message = "Canvas 2D is not available.",
                         !.dom.isError = TRUE]
       ELSE IF Unusable(built)
       THEN [base EXCEPT !.dom.statusText.message = "No snapshots to display.",
                         !.dom.isError = TRUE,
                         !.dom.prevDisabled = TRUE,
                         !.dom.nextDisabled = TRUE,
                         !.dom.resetDisabled = TRUE]
       ELSE LET e == render([snapshots |-> built.items,
                             state |-> [stepIndex |-> 0, animation |-> NullAnimation],
                             dom |-> PageDom, raf |-> 0])
            IN [cfg |-> [reduceMotion |-> reduce, rebuildSnapshotsOnReset |-> rebuild,
                         listening |-> TRUE],
                snapshots |-> e.snapshots, state |-> e.state, dom |-> e.dom, raf |-> e.raf,
                ap |-> createVisualizationAutoplaySkill(~reduce, ts)]

(* ───── observations ───── *)

\* terminalAt: when a step-forward last landed on the terminal index, -1 once the
\*   session has left it; resumeAt: when isActive last turned true, -1 while it is
\*   false or before it ever turned; resumeIdle: the session was idle and not at the
\*   terminal index at that moment; resumeSteps: autoplay steps started since then,
\*   up to stepInterval ms after it.
NoObs == [terminalAt |-> -1, resumeAt |-> -1, resumeIdle |-> FALSE, resumeSteps |-> 0]

Landed(e0, e1) ==
    /\ e1.snapshots = e0.snapshots
    /\ e1.state.stepIndex = e0.state.stepIndex + 1
    /\ isDone(e1)

Stayed(e0, e1) ==
    e1.snapshots = e0.snapshots /\ e1.state.stepIndex = e0.state.stepIndex

Observe(o, e0, e1, t) ==
    [o EXCEPT !.terminalAt = IF Landed(e0, e1) THEN t
                             ELSE IF Stayed(e0, e1) THEN @ ELSE -1,
              !.resumeSteps = IF /\ ~e0.state.animation.active
                                 /\ e1.state.animation.active
                                 /\ o.resumeAt >= 0
                                 /\ t <= o.resumeAt + stepInterval
                              THEN @ + 1 ELSE @]

ObserveActive(o, was, is, e, t) ==
    IF ~was /\ is
    THEN [o EXCEPT !.resumeAt = t, !.resumeIdle = ~isBusy(e) /\ ~isDone(e),
                   !.resumeSteps = 0]
    ELSE IF was /\ ~is
    THEN [o EXCEPT !.resumeAt = -1, !.resumeIdle = FALSE, !.resumeSteps = 0]
    ELSE o

(* ───── initial states ───── *)

Init ==
    \E found \in BOOLEAN, ctxOk \in BOOLEAN, reduce \in BOOLEAN, rebuild \in BOOLEAN,
       built \in BuildOutputs :
        LET c == createSnapshotVisualization(found, ctxOk, reduce, rebuild, built, StartTime)
        IN /\ now = StartTime
           /\ pageVisible \in BOOLEAN
           /\ panelHidden \in BOOLEAN
           /\ toggles = 0
           /\ cfg = c.cfg
           /\ snapshots = c.snapshots
           /\ state = c.state
           /\ dom = c.dom
           /\ raf = c.raf
           /\ ap = c.ap
           /\ obs = NoObs

(* ───── actions ───── *)

\* The engine after a handler ran: e1 replaces the engine's parts.
Becomes(e1) ==
    /\ e1.raf <= MaxRaf
    /\ snapshots' = e1.snapshots
    /\ state' = e1.state
    /\ dom' = e1.dom
    /\ raf' = e1.raf
    /\ obs' = Observe(obs, Engine, e1, now)

\* The user can reach the panel's buttons.
CanClick == cfg.listening /\ pageVisible /\ ~panelHidden

\* nextBtn click -> stepForward
NextClick ==
    /\ CanClick /\ ~dom.nextDisabled
    /\ Becomes(stepForward(Engine, now))
    /\ UNCHANGED <<now, pageVisible, panelHidden, toggles, cfg, ap>>

\* prevBtn click -> stepBackward
PrevClick ==
    /\ CanClick /\ ~dom.prevDisabled
    /\ Becomes(stepBackward(Engine))
    /\ UNCHANGED <<now, pageVisible, panelHidden, toggles, cfg, ap>>

\* resetBtn click -> resetToStart(rebuildSnapshotsOnReset)
ResetClick ==
    /\ CanClick /\ ~dom.resetDisabled
    /\ \E built \in Rebuilds(cfg.rebuildSnapshotsOnReset) :
           Becomes(resetToStart(Engine, cfg.rebuildSnapshotsOnReset, built))
    /\ UNCHANGED <<now, pageVisible, panelHidden, toggles, cfg, ap>>

\* keydown on the document
KeyDown ==
    /\ cfg.listening /\ pageVisible
    /\ \E key \in Keys, tag \in Tags :
           \E built \in Rebuilds(cfg.rebuildSnapshotsOnReset /\ key \in {"r", "R"}) :
               Becomes(keydown(Engine, key, tag, now, built))
    /\ UNCHANGED <<now, pageVisible, panelHidden, toggles, cfg, ap>>

\* One queued requestAnimationFrame callback runs (frames are not run while the
\* document is hidden).
Tick ==
    /\ raf > 0 /\ pageVisible
    /\ Becomes(tick([Engine EXCEPT !.raf = @ - 1], now))
    /\ UNCHANGED <<now, pageVisible, panelHidden, toggles, cfg, ap>>

\* The autoplay timer fires.
Loop ==
    /\ TimerPending /\ now >= ap.due
    /\ \E built \in Rebuilds(cfg.rebuildSnapshotsOnReset) :
           LET r == loop(ap, Engine, now, isActive, built)
           IN ap' = r.ap /\ Becomes(r.e)
    /\ UNCHANGED <<now, pageVisible, panelHidden, toggles, cfg>>

\* The page is hidden or shown (visibilitychange).
VisibilityChange ==
    /\ toggles < MaxToggles
    /\ toggles' = toggles + 1
    /\ pageVisible' = ~pageVisible
    /\ obs' = ObserveActive(obs, isActive, ~pageVisible /\ ~panelHidden, Engine, now)
    /\ UNCHANGED <<now, panelHidden, cfg, snapshots, state, dom, raf, ap>>

\* The page's picker hides or shows the panel.
PanelToggle ==
    /\ toggles < MaxToggles
    /\ toggles' = toggles + 1
    /\ pageVisible
    /\ panelHidden' = ~panelHidden
    /\ obs' = ObserveActive(obs, isActive, pageVisible /\ panelHidden, Engine, now)
    /\ UNCHANGED <<now, pageVisible, cfg, snapshots, state, dom, raf, ap>>

\* The frame callbacks of the current instant have run: a visible page renders a
\* frame in every Quantum.
FramesServed ==
    (raf > 0 /\ pageVisible) =>
        /\ state.animation.active
        /\ state.animation.progress = clamp01(now - state.animation.startTs)

\* Time passes once the callbacks due at this instant have run.
Advance ==
    /\ now + Quantum <= MaxTime
    /\ TimerPending => now < ap.due
    /\ FramesServed
    /\ now' = now + Quantum
    /\ UNCHANGED <<pageVisible, panelHidden, toggles, cfg, snapshots, state, dom, raf, ap, obs>>

Next ==
    \/ NextClick
    \/ PrevClick
    \/ ResetClick
    \/ KeyDown
    \/ Tick
    \/ Loop
    \/ Advance

\* The user, the frame callbacks and the autoplay timer, in any order.
Spec == Init /\ [][Next]_vars

\* Autoplay alone: no button and no key is pressed; the page and the panel may be
\* hidden and shown.
NextAuto ==
    \/ Tick
    \/ Loop
    \/ PanelToggle
    \/ VisibilityChange
    \/ Advance

SpecAuto == Init /\ [][NextAuto]_vars

\* The same with callbacks that keep firing and a clock that keeps running.
SpecAutoFair == SpecAuto /\ WF_vars(Tick) /\ WF_vars(Loop) /\ WF_vars(Advance)

(* ───── properties ───── *)

ElapsedMs == now - StartTime
LastIndex == Len(snapshots) - 1
ForwardKeys == {"ArrowRight", "ArrowDown"}
ResetKeys == {"r", "R"}

\* C1: in every state of a running session 0 <= stepIndex <= snapshots.length - 1,
\* whatever the order of steps, resets, keys, autoplay ticks and frame ticks; a
\* transition never targets an index past the last one, and neither step-forward
\* nor step-backward applied to the state leaves the range.
C1_IndexInRange ==
    cfg.listening =>
        /\ 0 <= state.stepIndex /\ state.stepIndex <= LastIndex
        /\ state.animation.active => state.animation.toIndex <= LastIndex
        /\ stepForward(Engine, now).state.stepIndex <= LastIndex
        /\ stepBackward(Engine).state.stepIndex >= 0

\* The session stands on the last index of a sequence of several snapshots,
\* where the arrow keys can be pressed.
C1_Witness ==
    /\ cfg.listening /\ pageVisible /\ ~panelHidden
    /\ LastIndex >= 1 /\ state.stepIndex = LastIndex

\* C2: while a transition is in flight a step-forward request from the Next
\* handler, an arrow key or an autoplay tick changes nothing: stepIndex, the
\* transition's target and the queue of frame callbacks stay as they are, so no
\* second transition appears.
C2_ForwardDropped ==
    (cfg.listening /\ state.animation.active) =>
        /\ stepForward(Engine, now) = Engine
        /\ onStep(Engine, now) = Engine
        /\ \A key \in ForwardKeys, tag \in Tags :
               keydown(Engine, key, tag, now, NotCalled) = Engine
        /\ \A built \in Rebuilds(cfg.rebuildSnapshotsOnReset) :
               loop(ap, Engine, now, isActive, built).e = Engine

\* A transition is under way, the keys can be pressed and the autoplay timer is
\* due with neither the pause nor a hidden panel in its way.
C2_Witness ==
    /\ cfg.listening /\ state.animation.active /\ state.animation.progress > 0
    /\ pageVisible /\ ~panelHidden
    /\ TimerPending /\ now >= ap.due /\ ap.prev > 0 /\ now >= ap.pauseUntil

\* The frame tick at which the progress reaches 1 sets stepIndex to the target
\* and clears the transition.
C3_LandsOnFinalFrame ==
    (cfg.listening /\ state.animation.active /\ raf > 0
        /\ clamp01(now - state.animation.startTs) >= animationMs) =>
        LET r == tick([Engine EXCEPT !.raf = @ - 1], now)
        IN /\ r.state.stepIndex = state.animation.toIndex
           /\ ~r.state.animation.active
           /\ r.raf = raf - 1

\* The page is visible and stays so: frame callbacks keep firing.
FramesKeepFiring == pageVisible /\ toggles = MaxToggles

\* C3: the frame tick in which the progress reaches 1 moves stepIndex to the
\* target and clears the transition in the same step, and while frame callbacks
\* keep firing every transition that starts early enough for the clock to cover
\* its duration is eventually cleared.
C3_TransitionCompletes ==
    /\ []C3_LandsOnFinalFrame
    /\ (state.animation.active /\ FramesKeepFiring
            /\ state.animation.startTs + animationMs + Quantum <= MaxTime)
         ~> ~state.animation.active

\* A transition whose duration has elapsed waits for its frame tick.
C3_Witness ==
    /\ cfg.listening /\ state.animation.active /\ raf > 0
    /\ clamp01(now - state.animation.startTs) >= animationMs

\* C4: in rewind mode a reset from any state gives stepIndex 0 and no
\* transition over the same sequence, from the button and from the r key alike,
\* and a second reset changes nothing more.
C4_RewindReset ==
    (cfg.listening /\ ~cfg.rebuildSnapshotsOnReset) =>
        LET r == resetToStart(Engine, cfg.rebuildSnapshotsOnReset, NotCalled)
        IN /\ r.state.stepIndex = 0
           /\ ~r.state.animation.active
           /\ r.snapshots = snapshots
           /\ resetToStart(r, cfg.rebuildSnapshotsOnReset, NotCalled) = r
           /\ ~panelHidden =>
                  \A key \in ResetKeys : keydown(Engine, key, "BODY", now, NotCalled) = r

\* Rewind mode, past the first index, with a transition in flight.
C4_Witness ==
    /\ cfg.listening /\ ~cfg.rebuildSnapshotsOnReset
    /\ state.stepIndex >= 1 /\ state.animation.active

\* C5 as stated: in rebuild mode every reset leaves stepIndex at 0, whatever
\* the factory returns.
C5_AlwaysRewinds ==
    (cfg.listening /\ cfg.rebuildSnapshotsOnReset) =>
        \A built \in BuildOutputs :
            resetToStart(Engine, cfg.rebuildSnapshotsOnReset, built).state.stepIndex = 0

\* C5: in rebuild mode a reset whose factory call returns a non-empty array
\* leaves stepIndex at 0 with no transition and the sequence replaced by that
\* array, of whatever length; a reset whose factory call returns an empty array
\* or a non-array changes nothing.
C5_RebuildReset ==
    (cfg.listening /\ cfg.rebuildSnapshotsOnReset) =>
        \A built \in BuildOutputs :
            LET r == resetToStart(Engine, cfg.rebuildSnapshotsOnReset, built)
            IN IF Unusable(built) THEN r = Engine
               ELSE /\ r.state.stepIndex = 0
                    /\ ~r.state.animation.active
                    /\ r.snapshots = built.items

\* Rebuild mode, past the first index, on a sequence shorter than the longest.
C5_Witness ==
    /\ cfg.listening /\ cfg.rebuildSnapshotsOnReset
    /\ state.stepIndex >= 1 /\ Len(snapshots) < MaxLen

Inactive == ~(pageVisible /\ ~panelHidden)

\* C6: with autoplay alone every change of stepIndex is a move to the next
\* index or a reset to 0 taken from the last index, so no index is skipped and
\* each cycle ends at the terminal index.
C6_EveryIndexInOrder ==
    [][state'.stepIndex # state.stepIndex =>
          \/ state'.stepIndex = state.stepIndex + 1
          \/ state'.stepIndex = 0 /\ state.stepIndex = LastIndex]_vars

\* Rewind mode, several snapshots: autoplay has walked to the end and reset.
C6_Witness ==
    /\ cfg.listening /\ ~cfg.rebuildSnapshotsOnReset /\ LastIndex >= 1
    /\ state.stepIndex = 0 /\ ap.pauseUntil > now

\* The page has been visible and the panel shown since construction.
AlwaysActive == pageVisible /\ ~panelHidden /\ toggles = 0

\* C7 as stated: with autoplay running on a visible page, stepIndex is the
\* terminal index N-1 once (N-1) * stepInterval ms have elapsed.
C7_TerminalOnSchedule ==
    (cfg.listening /\ ap.enabled /\ AlwaysActive /\ LastIndex >= 1
        /\ ElapsedMs >= LastIndex * stepInterval
        /\ ElapsedMs < LastIndex * stepInterval + Quantum) =>
        state.stepIndex = LastIndex

\* C7: with autoplay alone, index k >= 1 is reached no earlier than
\* k * stepInterval + animationMs ms after construction, so when
\* (N-1) * stepInterval ms have elapsed stepIndex is still below N-1.
C7_NoEarlierThan ==
    (cfg.listening /\ ap.enabled) =>
        /\ state.stepIndex >= 1 =>
               ElapsedMs >= state.stepIndex * stepInterval + animationMs
        /\ (LastIndex >= 1 /\ ElapsedMs <= LastIndex * stepInterval) =>
               state.stepIndex < LastIndex

\* Autoplay has reached the terminal index of several snapshots on a page that
\* was visible throughout.
C7_Witness ==
    /\ cfg.listening /\ ap.enabled /\ AlwaysActive
    /\ LastIndex >= 1 /\ state.stepIndex = LastIndex

\* C8 as stated: once autoplay has landed on the terminal index, on a page
\* visible throughout, stepIndex stays there until donePause ms have elapsed
\* since the landing.
C8_DwellsDonePause ==
    [][(AlwaysActive /\ obs.terminalAt >= 0 /\ state'.stepIndex # state.stepIndex) =>
          now >= obs.terminalAt + donePause]_vars

\* C9 as stated: while isActive is false, nothing but a change of visibility
\* changes stepIndex or the transition.
C9_FrozenWhileInactive ==
    [][(cfg.listening /\ Inactive /\ UNCHANGED <<pageVisible, panelHidden>>) =>
          UNCHANGED state]_vars

\* C9: while isActive is false an autoplay tick performs no step and no reset:
\* it leaves the session, the sequence, the rendered controls and the frame
\* queue alone, empties its accumulator and re-arms its timer.  (A transition
\* in flight is not suspended: its frame ticks go on whenever the page renders.)
C9_AutoplaySuspended ==
    [][(Inactive /\ ap' # ap) =>
          /\ UNCHANGED <<state, snapshots, dom, raf>>
          /\ ap'.acc = 0 /\ ap'.prev = now /\ ap'.pauseUntil = ap.pauseUntil
          /\ ap'.due = now + TICK_MS]_vars

\* The autoplay tick of this instant found the panel or the page hidden while a
\* transition was in flight.
C9_Witness ==
    /\ cfg.listening /\ Inactive /\ state.animation.active
    /\ ap.enabled /\ ap.prev = now /\ ap.acc = 0 /\ ap.due = now + TICK_MS

\* C10 as stated: stepInterval ms after the page became active again, with the
\* session idle and not at the terminal index, autoplay has started exactly one
\* step.
C10_ExactlyOneStep ==
    (cfg.listening /\ ap.enabled /\ obs.resumeAt >= 0 /\ obs.resumeIdle
        /\ now >= obs.resumeAt + stepInterval) =>
        obs.resumeSteps = 1

\* C10: within stepInterval ms of the page becoming active again autoplay
\* starts at most one step (and possibly none).
C10_AtMostOneStep ==
    (cfg.listening /\ ap.enabled /\ obs.resumeAt >= 0) => obs.resumeSteps <= 1

\* stepInterval ms after an idle session became active again, one step has
\* been started.
C10_Witness ==
    /\ cfg.listening /\ ap.enabled /\ obs.resumeAt >= 0 /\ obs.resumeIdle
    /\ now >= obs.resumeAt + stepInterval /\ obs.resumeSteps = 1

\* C11: with reduced motion active at construction no transition record and no
\* frame callback exists in any state, and a step-forward accepted from the
\* button or an arrow key moves stepIndex up by exactly one within the handler.
C11_NoTransitionEver ==
    (cfg.listening /\ cfg.reduceMotion) =>
        /\ ~state.animation.active /\ raf = 0
        /\ state.stepIndex < LastIndex =>
               LET r == stepForward(Engine, now)
               IN /\ r.state.stepIndex = state.stepIndex + 1
                  /\ ~r.state.animation.active /\ r.raf = 0
                  /\ ~panelHidden =>
                         \A key \in ForwardKeys : keydown(Engine, key, "BODY", now, NotCalled) = r

\* Reduced motion: steps have been taken and another one can be.
C11_Witness ==
    /\ cfg.listening /\ cfg.reduceMotion /\ ~panelHidden
    /\ state.stepIndex >= 1 /\ state.stepIndex < LastIndex

\* C12: with reduced motion active autoplay never starts: no timer is ever
\* armed, and with no manual request the session, the sequence, the controls and
\* the autoplay closure never change (neither onStep nor onReset runs).
C12_AutoplayNeverStarts ==
    /\ [](cfg.reduceMotion => (~ap.enabled /\ ap.timeoutId = 0 /\ ~TimerPending))
    /\ [][cfg.reduceMotion => UNCHANGED <<state, snapshots, dom, raf, ap>>]_vars

\* Reduced motion, several snapshots, the page shown: more than a step interval
\* has passed and the session still stands on the first index.
C12_Witness ==
    /\ cfg.listening /\ cfg.reduceMotion /\ pageVisible /\ ~panelHidden
    /\ LastIndex >= 1 /\ state.stepIndex = 0
    /\ ElapsedMs >= stepInterval + animationMs + 2 * TICK_MS

\* Construction stopped at the empty-sequence guard.
NoSnapshots == dom.statusText.message = "No snapshots to display."

\* C13: when the factory returns an empty array or a non-array at construction,
\* the status shows the error, the three controls are disabled, no session, no
\* listener and no timer exists, and no later event changes any of it.
C13_DisabledForGood ==
    /\ [](NoSnapshots =>
            /\ dom.isError
            /\ dom.prevDisabled /\ dom.nextDisabled /\ dom.resetDisabled
            /\ ~cfg.listening /\ ~TimerPending /\ raf = 0
            /\ snapshots = <<>>
            /\ state = [stepIndex |-> 0, animation |-> NullAnimation])
    /\ [][NoSnapshots => (NoSnapshots' /\ UNCHANGED <<cfg, snapshots, state, dom, raf, ap>>)]_vars

\* The error state, with the page shown, well after construction.
C13_Witness ==
    /\ NoSnapshots /\ pageVisible /\ ~panelHidden
    /\ ElapsedMs >= stepInterval + animationMs

\* Construction stopped at the DOM lookup or at the 2D-context guard.
NoBinding == ~cfg.listening /\ ~NoSnapshots

\* C14 as stated: when a DOM binding is missing or the canvas gives no 2D
\* context, the status shows the condition and the three controls are disabled.
C14_FallsBackDisabled ==
    NoBinding =>
        /\ dom.isError /\ dom.statusText.message # ""
        /\ dom.prevDisabled /\ dom.nextDisabled /\ dom.resetDisabled

BackwardKeys == {"ArrowLeft", "ArrowUp"}

\* C15: a step-forward at the terminal index and a step-backward at index 0,
\* from the handler or from an arrow key, leave stepIndex, the transition, the
\* sequence, the status and the controls exactly as they were: no error state.
C15_BoundaryNoOp ==
    cfg.listening =>
        /\ state.stepIndex = LastIndex =>
               /\ stepForward(Engine, now) = Engine
               /\ \A key \in ForwardKeys, tag \in Tags :
                      keydown(Engine, key, tag, now, NotCalled) = Engine
        /\ state.stepIndex = 0 =>
               /\ stepBackward(Engine) = Engine
               /\ \A key \in BackwardKeys, tag \in Tags :
                      keydown(Engine, key, tag, now, NotCalled) = Engine
        /\ ~dom.isError

\* The session rests on the terminal index of several snapshots after a
\* transition, the keys within reach.
C15_Witness ==
    /\ cfg.listening /\ ~cfg.reduceMotion /\ ~panelHidden /\ pageVisible
    /\ LastIndex >= 1 /\ state.stepIndex = LastIndex
    /\ ~state.animation.active /\ dom.nextDisabled /\ ~dom.prevDisabled

(* ───── the Fibonacci panel of algorithm-visualizations.js ───── *)
(* initFibonacciVisualization keeps its own copy of the engine: the same session *)
(* state, its own handlers, and an autoplay loop driven by animation frames.    *)

\* n of initFibonacciVisualization (10 in the source), kept small here
FibN == 2
FIB_ANIMATION_MS == 700
LEGACY_DT_CAP == 200

\* buildSnapshots(): the base cases, one snapshot per i in 2..n, and the closing one.
fibBuildSnapshots == SnapshotsOfLen(FibN + 1)

\* render() with setStatus(): the status is the text of the snapshot on show.
fibRender(e) ==
    LET shown == IF e.state.animation.active
                 THEN e.snapshots[e.state.animation.toIndex + 1]
                 ELSE e.snapshots[e.state.stepIndex + 1]
    IN [e EXCEPT !.dom.statusText = [label |-> NoLabel, text |-> shown, message |-> ""],
                 !.dom.prevDisabled = (e.state.stepIndex <= 0 \/ e.state.animation.active),
                 !.dom.nextDisabled = (e.state.stepIndex >= Len(e.snapshots) - 1
                                        \/ e.state.animation.active)]

\* tick(ts) of the Fibonacci panel.
fibTick(e, ts) ==
    IF ~e.state.animation.active THEN e
    ELSE LET p == Max(0, Min(FIB_ANIMATION_MS, ts - e.state.animation.startTs))
         IN IF p >= FIB_ANIMATION_MS
            THEN fibRender([e EXCEPT !.state.stepIndex = e.state.animation.toIndex,
                                     !.state.animation = NullAnimation])
            ELSE [fibRender([e EXCEPT !.state.animation.progress = p])
                     EXCEPT !.raf = @ + 1]

\* runStepAnimation(targetIndex) of the Fibonacci panel, called at time ts.
fibRunStepAnimation(e, targetIndex, ts) ==
    IF e.state.animation.active \/ targetIndex <= e.state.stepIndex \/ cfg.reduceMotion
    THEN fibRender([e EXCEPT !.state.stepIndex = targetIndex])
    ELSE [e EXCEPT !.state.animation =
                       [active |-> TRUE, toIndex |-> targetIndex, startTs |-> ts,
                        progress |-> 0],
                   !.raf = @ + 1]

\* The three click listeners of the Fibonacci panel.
fibPrevClick(e) ==
    IF e.state.stepIndex <= 0 THEN e
    ELSE fibRender([e EXCEPT !.state.stepIndex = @ - 1])

fibNextClick(e, ts) ==
    IF e.state.stepIndex >= Len(e.snapshots) - 1 \/ e.state.animation.active THEN e
    ELSE fibRunStepAnimation(e, e.state.stepIndex + 1, ts)

fibResetClick(e) ==
    fibRender([e EXCEPT !.state.stepIndex = 0, !.state.animation = NullAnimation])

\* loop(ts) of the frame-driven autoplay; due is the time of the next frame.
legacyLoop(a, e, ts) ==
    IF a.stopped THEN [ap |-> [a EXCEPT !.timeoutId = 0], e |-> e]
    ELSE LET a0 == [a EXCEPT !.due = ts + Quantum]
         IN IF a0.prev = 0 THEN [ap |-> [a0 EXCEPT !.prev = ts], e |-> e]
            ELSE LET dt == Min(LEGACY_DT_CAP, ts - a0.prev)
                     a1 == [a0 EXCEPT !.prev = ts]
                 IN IF ts < a1.pauseUntil \/ isBusy(e) THEN [ap |-> a1, e |-> e]
                    ELSE LET a2 == [a1 EXCEPT !.acc = @ + dt]
                         IN IF a2.acc < stepInterval THEN [ap |-> a2, e |-> e]
                            ELSE LET a3 == [a2 EXCEPT !.acc = @ - stepInterval]
                                 IN IF isDone(e)
                                    THEN [ap |-> [a3 EXCEPT !.pauseUntil = ts + donePause],
                                          e |-> fibResetClick(e)]
                                    ELSE LET e1 == fibNextClick(e, ts)
                                         IN [ap |-> IF isDone(e1)
                                                    THEN [a3 EXCEPT !.pauseUntil = ts + donePause]
                                                    ELSE a3,
                                             e |-> e1]

\* The frame-driven createVisualizationAutoplaySkill(...) called at time ts.
legacyAutoplaySkill(enabled, ts) ==
    [enabled |-> enabled, prev |-> 0, acc |-> 0, pauseUntil |-> 0, stopped |-> FALSE,
     timeoutId |-> IF enabled THEN 1 ELSE 0, due |-> IF enabled THEN ts ELSE 0]

\* initFibonacciVisualization() called at time ts.
initFibonacciVisualization(found, ctxOk, reduce, ts) ==
    LET base == [cfg |-> [reduceMotion |-> reduce, rebuildSnapshotsOnReset |-> FALSE,
                          listening |-> FALSE],
                 snapshots |-> <<>>,
                 state |-> [stepIndex |-> 0, animation |-> NullAnimation],
                 dom |-> PageDom,
                 raf |-> 0,
                 ap |-> legacyAutoplaySkill(FALSE, ts)]
    IN IF ~found THEN base
       ELSE IF ~ctxOk
       THEN [base EXCEPT !.dom.statusText.message = "Canvas 2D is not available.",
                         !.dom.isError = TRUE]
       ELSE LET e == fibRender([snapshots |-> fibBuildSnapshots,
                                state |-> [stepIndex |-> 0, animation |-> NullAnimation],
                                dom |-> PageDom, raf |-> 0])
            IN [cfg |-> [reduceMotion |-> reduce, rebuildSnapshotsOnReset |-> FALSE,
                         listening |-> TRUE],
                snapshots |-> e.snapshots, state |-> e.state, dom |-> e.dom, raf |-> e.raf,
                ap |-> legacyAutoplaySkill(~reduce, ts)]

FibInit ==
    \E found \in BOOLEAN, ctxOk \in BOOLEAN, reduce \in BOOLEAN :
        LET c == initFibonacciVisualization(found, ctxOk, reduce, StartTime)
        IN /\ now = StartTime
           /\ pageVisible \in BOOLEAN
           /\ panelHidden = FALSE
           /\ toggles = 0
           /\ cfg = c.cfg
           /\ snapshots = c.snapshots
           /\ state = c.state
           /\ dom = c.dom
           /\ raf = c.raf
           /\ ap = c.ap
           /\ obs = NoObs

FibNextClick ==
    /\ CanClick /\ ~dom.nextDisabled
    /\ Becomes(fibNextClick(Engine, now))
    /\ UNCHANGED <<now, pageVisible, panelHidden, toggles, cfg, ap>>

FibPrevClick ==
    /\ CanClick /\ ~dom.prevDisabled
    /\ Becomes(fibPrevClick(Engine))
    /\ UNCHANGED <<now, pageVisible, panelHidden, toggles, cfg, ap>>

FibResetClick ==
    /\ CanClick /\ ~dom.resetDisabled
    /\ Becomes(fibResetClick(Engine))
    /\ UNCHANGED <<now, pageVisible, panelHidden, toggles, cfg, ap>>

\* One queued tick callback runs in a frame of the visible page.
FibTick ==
    /\ raf > 0 /\ pageVisible
    /\ Becomes(fibTick([Engine EXCEPT !.raf = @ - 1], now))
    /\ UNCHANGED <<now, pageVisible, panelHidden, toggles, cfg, ap>>

\* The autoplay loop runs in a frame of the visible page.
FibLoop ==
    /\ TimerPending /\ pageVisible /\ now >= ap.due
    /\ LET r == legacyLoop(ap, Engine, now)
       IN ap' = r.ap /\ Becomes(r.e)
    /\ UNCHANGED <<now, pageVisible, panelHidden, toggles, cfg>>

\* Time passes once the frame callbacks of this instant have run.
FibAdvance ==
    /\ now + Quantum <= MaxTime
    /\ (TimerPending /\ pageVisible) => now < ap.due
    /\ FramesServed
    /\ now' = now + Quantum
    /\ UNCHANGED <<pageVisible, panelHidden, toggles, cfg, snapshots, state, dom, raf, ap, obs>>

FibNext ==
    \/ FibNextClick
    \/ FibPrevClick
    \/ FibResetClick
    \/ FibTick
    \/ FibLoop
    \/ FibAdvance

\* The Fibonacci panel: the user, the frame callbacks and the autoplay loop.
SpecFib == FibInit /\ [][FibNext]_vars

\* C16 as stated: while a transition is in flight and stays so, stepIndex does
\* not change: a step-backward is rejected from the start of the transition on,
\* its first rendered frame included.
C16_BackwardRejected ==
    [][(cfg.listening /\ state.animation.active /\ state'.animation.active) =>
          state'.stepIndex = state.stepIndex]_vars

\* C17: an autoplay tick changes the session, the sequence, the controls or the
\* frame queue (a step-forward or the terminal reset) only when the page is
\* visible, the panel is not hidden and no transition is in flight; on a tick
\* where one of these fails it changes none of them.
C17_OnlyWhenActiveAndIdle ==
    [][(ap' # ap /\ <<state, snapshots, dom, raf>>' # <<state, snapshots, dom, raf>>) =>
          (pageVisible /\ ~panelHidden /\ ~state.animation.active)]_vars

\* The autoplay tick of this instant ran on a visible page and a shown panel
\* while a transition was in flight, and left it alone.
C17_Witness ==
    /\ cfg.listening /\ pageVisible /\ ~panelHidden
    /\ state.animation.active /\ state.animation.progress > 0
    /\ ap.enabled /\ ap.prev = now /\ ap.due = now + TICK_MS

\* C18: an autoplay tick that finds the session at the terminal index starts no
\* transition: it is the only tick that moves pauseUntil, which it sets to
\* donePause ms ahead while the reset leaves stepIndex at 0 (or, when a rebuild
\* gives nothing usable, the session as it was); and autoplay starts a
\* step-forward only once that pause is over, from a session not at the
\* terminal index.
C18_ResetThenPause ==
    [][/\ (ap' # ap /\ isDone(Engine)) => ~state'.animation.active
       /\ ap'.pauseUntil # ap.pauseUntil =>
              /\ isDone(Engine)
              /\ ap'.pauseUntil = now + donePause
              /\ state'.stepIndex = 0 \/ UNCHANGED <<state, snapshots>>
       /\ (~state.animation.active /\ state'.animation.active) =>
              (now >= ap.pauseUntil /\ ~isDone(Engine))]_vars

\* After a reset by autoplay the session is not at the terminal index, the page
\* is shown, and autoplay ticks have gone by inside the pause without a step.
C18_Witness ==
    /\ cfg.listening /\ pageVisible /\ ~panelHidden
    /\ LastIndex >= 1 /\ state.stepIndex = 0 /\ ~state.animation.active
    /\ ap.pauseUntil > now /\ now >= ap.pauseUntil - donePause + 2 * TICK_MS
    /\ ap.prev = now

(* ───── the stop handle ───── *)

\* stop() that sets the flag and leaves the armed timer alone.
stop_NoClear(a) == [a EXCEPT !.stopped = TRUE]

\* stop() of the handle createVisualizationAutoplaySkill returns; the handle of a
\* disabled skill does nothing.
stop(a) ==
    IF ~a.enabled THEN a
    ELSE [a EXCEPT !.stopped = TRUE, !.timeoutId = 0]

\* The holder of the handle calls stop().
Stop ==
    /\ cfg.listening
    /\ ap' = stop(ap)
    /\ UNCHANGED <<now, pageVisible, panelHidden, toggles, cfg, snapshots, state, dom, raf, obs>>

NextStop ==
    \/ Tick
    \/ Loop
    \/ Stop
    \/ Advance

\* Autoplay alone, with a caller that may stop it at any moment.
SpecStop == Init /\ [][NextStop]_vars

\* C19: once stop() has been called no timer is armed, a loop callback or a
\* schedule call that ran all the same would do nothing, the autoplay closure
\* never changes again, and the session changes only by the frame ticks of a
\* transition that was already in flight: neither onStep nor onReset runs.
C19_StopIsTerminal ==
    /\ [](ap.stopped =>
            /\ ap.timeoutId = 0 /\ ~TimerPending
            /\ schedule(ap, TICK_MS, now) = ap
            /\ \A built \in BuildOutputs, active \in BOOLEAN :
                   loop(ap, Engine, now, active, built) = [ap |-> ap, e |-> Engine])
    /\ [][ap.stopped =>
            /\ ap' = ap
            /\ snapshots' = snapshots
            /\ state' # state => state.animation.active]_vars

\* Autoplay was stopped on a shown page short of the terminal index, and more
\* than a step interval has passed since its last tick.
C19_Witness ==
    /\ cfg.listening /\ ap.stopped /\ pageVisible /\ ~panelHidden
    /\ ~isDone(Engine) /\ ~isBusy(Engine)
    /\ ap.prev > 0 /\ now >= ap.prev + stepInterval + 2 * TICK_MS

(* ───── a clock that never stops ───── *)

\* The code reads its timestamps only through differences and through the
\* value 0 of a timestamp never set.  Once the clock has reached MaxTime, an
\* elapsed Quantum is therefore the same as every stored timestamp moving one
\* Quantum into the past, 0 staying 0 and -1 staying -1.
Rebase(t) == IF t > 0 THEN Max(1, t - Quantum) ELSE t

AdvanceForever ==
    /\ TimerPending => now < ap.due
    /\ FramesServed
    /\ IF now + Quantum <= MaxTime
       THEN now' = now + Quantum /\ UNCHANGED <<state, ap, obs>>
       ELSE /\ now' = now
            /\ ap' = [ap EXCEPT !.prev = Rebase(@), !.pauseUntil = Rebase(@),
                                !.due = Rebase(@)]
            /\ state' = [state EXCEPT !.animation.startTs = Rebase(@)]
            /\ obs' = [obs EXCEPT !.terminalAt = Rebase(@), !.resumeAt = Rebase(@)]
    /\ UNCHANGED <<pageVisible, panelHidden, toggles, cfg, snapshots, dom, raf>>

NextCycle ==
    \/ Tick
    \/ Loop
    \/ AdvanceForever

\* Autoplay alone, for ever: timer and frame callbacks keep firing and time keeps
\* passing; the page and the panel stay as they were at construction.
SpecCycle ==
    Init /\ [][NextCycle]_vars
         /\ WF_vars(Tick) /\ WF_vars(Loop) /\ WF_vars(AdvanceForever)

\* Autoplay is enabled and the panel is, and stays, active.
AutoplayRunning == cfg.listening /\ ap.enabled /\ pageVisible /\ ~panelHidden

\* The autoplay tick of this instant took the reset branch.
ResetTick == ap.pauseUntil = now + donePause

\* C20 as stated: with autoplay running, the session is at the terminal index
\* infinitely often and is reset to index 0 infinitely often.
C20_CyclesForever ==
    /\ []<>(AutoplayRunning => isDone(Engine))
    /\ []<>(AutoplayRunning => (ResetTick /\ state.stepIndex = 0))

\* C20: with autoplay running, the session is at the terminal index infinitely
\* often and autoplay takes its reset branch infinitely often; in rewind mode
\* each of these resets leaves the session at index 0, so it never stalls.  (In
\* rebuild mode a reset whose factory call gives nothing usable leaves the
\* session at the terminal index.)
C20_CyclesInRewindMode ==
    /\ []<>(AutoplayRunning => isDone(Engine))
    /\ []<>(AutoplayRunning => ResetTick)
    /\ []<>((AutoplayRunning /\ ~cfg.rebuildSnapshotsOnReset) =>
                (ResetTick /\ state.stepIndex = 0))

\* Rewind mode, several snapshots: autoplay has just reset the session from the
\* terminal index, at a time past the first MaxTime ms.
C20_Witness ==
    /\ AutoplayRunning /\ ~cfg.rebuildSnapshotsOnReset /\ LastIndex >= 2
    /\ ResetTick /\ state.stepIndex = 0
    /\ now + Quantum > MaxTime

(* ───── the site menu of site.js ───── *)
(* initMenu keeps its state in the page: dom holds the attributes of the toggle, *)
(* the overlay, the panel and the body with document.activeElement, state holds *)
(* the closure (lastFocused), cfg what initMenu found.  The other variables     *)
(* stay as they are.                                                            *)

MaxOthers == 3       \* focusable elements of the page outside the menu
MaxLinks == 2        \* most links in the menu panel

\* An element is its kind and its position among those of its kind.
NoElement == <<"null", 0>>
Body == <<"body", 0>>
ToggleBtn == <<"toggle", 0>>
CloseBtn == <<"closeBtn", 0>>
PageElements == {Body, ToggleBtn} \cup {<<"other", i>> : i \in 1..MaxOthers}
PanelLinks(n) == {<<"link", i>> : i \in 1..n}

\* What can hold the focus: the panel's links and its close button only while
\* the panel is shown.
Focusable(d, n) ==
    PageElements \cup (IF d.panelHidden THEN {} ELSE PanelLinks(n) \cup {CloseBtn})

MenuOf(d, s) == [dom |-> d, state |-> s]
Menu == MenuOf(dom, state)

isOpen(m) == m.dom.expanded

\* openMenu()
openMenu(m, n) ==
    IF isOpen(m) THEN m
    ELSE [dom |-> [expanded |-> TRUE, label |-> "Close menu",
                   overlayHidden |-> FALSE, panelHidden |-> FALSE, navOpen |-> TRUE,
                   activeElement |-> IF n >= 1 THEN <<"link", 1>> ELSE CloseBtn],
          state |-> [lastFocused |-> m.dom.activeElement]]

\* closeMenu() that leaves the focus where it is.
closeMenu_NoFocus(m) ==
    IF ~isOpen(m) THEN m
    ELSE [dom |-> [expanded |-> FALSE, label |-> "Open menu",
                   overlayHidden |-> TRUE, panelHidden |-> TRUE, navOpen |-> FALSE,
                   activeElement |-> IF m.dom.activeElement \in PageElements
                                     THEN m.dom.activeElement ELSE Body],
          state |-> [lastFocused |-> NoElement]]

\* closeMenu(); an element of the hidden panel cannot keep the focus.
closeMenu(m) ==
    IF ~isOpen(m) THEN m
    ELSE [dom |-> [expanded |-> FALSE, label |-> "Open menu",
                   overlayHidden |-> TRUE, panelHidden |-> TRUE, navOpen |-> FALSE,
                   activeElement |-> IF m.state.lastFocused # NoElement
                                     THEN m.state.lastFocused
                                     ELSE IF m.dom.activeElement \in PageElements
                                     THEN m.dom.activeElement ELSE Body],
          state |-> [lastFocused |-> NoElement]]

\* The listeners initMenu registers.
toggleClick(m, n) == IF isOpen(m) THEN closeMenu(m) ELSE openMenu(m, n)
panelClick(m, onLink) == IF onLink THEN closeMenu(m) ELSE m
menuKeydown(m, key) ==
    IF ~isOpen(m) THEN m
    ELSE IF key = "Escape" THEN closeMenu(m)
    ELSE m

MenuKeys == {"Escape", "Enter", "Tab"}

\* initMenu(): found = the toggle, the overlay, the panel and the close button
\* all exist; n = the links in the panel.
initMenu(found, n) ==
    [cfg |-> [listening |-> found, links |-> n],
     dom |-> [expanded |-> FALSE, label |-> "Open menu",
              overlayHidden |-> TRUE, panelHidden |-> TRUE, navOpen |-> FALSE,
              activeElement |-> Body],
     state |-> [lastFocused |-> NoElement]]

MenuInit ==
    \E found \in BOOLEAN, n \in 0..MaxLinks :
        LET c == initMenu(found, n)
        IN /\ cfg = c.cfg /\ dom = c.dom /\ state = c.state
           /\ now = 0 /\ pageVisible = TRUE /\ panelHidden = FALSE /\ toggles = 0
           /\ snapshots = <<>> /\ raf = 0
           /\ ap = createVisualizationAutoplaySkill(FALSE, 0)
           /\ obs = NoObs

\* The menu after a listener ran.
MenuBecomes(m) ==
    /\ dom' = m.dom
    /\ state' = m.state
    /\ UNCHANGED <<now, pageVisible, panelHidden, toggles, cfg, snapshots, raf, ap, obs>>

\* A click on the toggle; the click may leave the focus on the button first.
ToggleClick ==
    /\ cfg.listening
    /\ \E focuses \in BOOLEAN :
           LET d == IF focuses THEN [dom EXCEPT !.activeElement = ToggleBtn] ELSE dom
           IN MenuBecomes(toggleClick(MenuOf(d, state), cfg.links))

CloseClick ==
    /\ cfg.listening /\ ~dom.panelHidden
    /\ \E focuses \in BOOLEAN :
           LET d == IF focuses THEN [dom EXCEPT !.activeElement = CloseBtn] ELSE dom
           IN MenuBecomes(closeMenu(MenuOf(d, state)))

OverlayClick ==
    /\ cfg.listening /\ ~dom.overlayHidden
    /\ MenuBecomes(closeMenu(Menu))

PanelClick ==
    /\ cfg.listening /\ ~dom.panelHidden
    /\ \E onLink \in BOOLEAN :
           /\ onLink => cfg.links >= 1
           /\ MenuBecomes(panelClick(Menu, onLink))

MenuKeyDown ==
    /\ cfg.listening
    /\ \E key \in MenuKeys : MenuBecomes(menuKeydown(Menu, key))

\* The user moves the focus to another element that can take it.
FocusMove ==
    /\ \E el \in Focusable(dom, cfg.links) :
           /\ el # dom.activeElement
           /\ MenuBecomes(MenuOf([dom EXCEPT !.activeElement = el], state))

MenuNext ==
    \/ ToggleClick
    \/ CloseClick
    \/ OverlayClick
    \/ PanelClick
    \/ MenuKeyDown
    \/ FocusMove

SpecMenu == MenuInit /\ [][MenuNext]_vars

\* The closed state with the focus on el.
ClosedWithFocus(m, el) ==
    /\ ~m.dom.expanded /\ m.dom.overlayHidden /\ m.dom.panelHidden /\ ~m.dom.navOpen
    /\ m.dom.activeElement = el
    /\ m.state.lastFocused = NoElement

\* C21: opening the menu remembers the element that has the focus when the
\* handler runs (the one focused before the click, or the toggle if the click
\* has just focused it); while the menu is open Escape, the toggle, the close
\* button, the overlay and a link of the panel all give the same closed state
\* (aria-expanded false, overlay and panel hidden, nav-open removed) with the
\* focus back on that element; while it is closed Escape changes nothing.
C21_EveryRouteCloses ==
    /\ [](cfg.listening =>
            IF isOpen(Menu)
            THEN /\ state.lastFocused \in PageElements
                 /\ ~dom.overlayHidden /\ ~dom.panelHidden /\ dom.navOpen
                 /\ ClosedWithFocus(menuKeydown(Menu, "Escape"), state.lastFocused)
                 /\ toggleClick(Menu, cfg.links) = menuKeydown(Menu, "Escape")
                 /\ closeMenu(Menu) = menuKeydown(Menu, "Escape")
                 /\ panelClick(Menu, TRUE) = menuKeydown(Menu, "Escape")
            ELSE /\ menuKeydown(Menu, "Escape") = Menu
                 /\ ClosedWithFocus(Menu, dom.activeElement))
    /\ [][/\ (~dom.expanded /\ dom'.expanded) =>
                 state'.lastFocused \in {dom.activeElement, ToggleBtn}
          /\ (dom.expanded /\ dom'.expanded) => state'.lastFocused = state.lastFocused
          /\ (dom.expanded /\ ~dom'.expanded) => dom'.activeElement = state.lastFocused]_vars

\* The menu was opened from an element of the page and the focus has since
\* moved to the second link of the panel.
C21_Witness ==
    /\ cfg.listening /\ dom.expanded
    /\ state.lastFocused = <<"other", 1>> /\ dom.activeElement = <<"link", 2>>

\* ---------------------------------------------------------------------
\* The HTML preview page (src/html-renderer.js).  The page is modelled at
\* the level of the parsed document: the text of the input box is the
\* list of elements the parser makes of it, each with its attributes, and
\* an attribute value is the sequence of its lexical pieces.  The page
\* keeps its input box, its iframe and its status line in dom.
\* ---------------------------------------------------------------------

\* Most elements a pasted document has.
MaxEls == 2

\* Attribute values a pasted document may carry.
JsUrl == <<"javascript", ":", "alert(1)">>
JsUrlSpaced == <<" ", "JavaScript", " ", ":", "alert(1)">>
DataHtmlUrl == <<"data", ":", "text/html", ",", "<script>">>
DataPngUrl == <<"data", ":", "image/png", ",", "bytes">>
HttpsUrl == <<"https", ":", "//example.org">>
AttrValues == {JsUrl, JsUrlSpaced, DataHtmlUrl, DataPngUrl, HttpsUrl}

PastedTags == {"a", "img", "script", "meta"}
PastedAttrs == {"href", "src", "onclick", "http-equiv"}

\* The elements a pasted document is made of: a tag and one attribute.
PastedElements ==
    {[tag |-> t, attrs |-> [n \in {a} |-> v]] :
        t \in PastedTags, a \in PastedAttrs, v \in AttrValues}

\* The documents that can be pasted; the empty one stands for blank text.
PastedDocs == UNION {[1..k -> PastedElements] : k \in 0..MaxEls}

\* The selector list of sanitizeHTML.
dangerous == {"script", "iframe", "object", "embed", "applet", "form", "base"}

\* The attributes sanitizeHTML looks for javascript: in.
urlAttrs == {"href", "src", "action", "formaction", "xlink:href"}

\* attr.name.startsWith('on') over the attribute names of the model.
startsWithOn(name) == name \in {"onclick"}

\* The i flag of the pattern: a piece in lower case.
toLower(piece) ==
    CASE piece = "JavaScript" -> "javascript"
      [] piece = "DATA" -> "data"
      [] OTHER -> piece

\* \s* from position i: the position of the first piece that is not
\* white space, Len(val) + 1 when there is none.
RECURSIVE skipSpace(_, _)
skipSpace(val, i) ==
    IF i <= Len(val) /\ val[i] = " " THEN skipSpace(val, i + 1) ELSE i

\* /^\s*javascript\s*:/i.test(val)
matchesJavascript(val) ==
    LET i == skipSpace(val, 1)
    IN /\ i <= Len(val)
       /\ toLower(val[i]) = "javascript"
       /\ LET j == skipSpace(val, i + 1)
          IN j <= Len(val) /\ val[j] = ":"

removeAttribute(el, name) ==
    [el EXCEPT !.attrs = [n \in (DOMAIN el.attrs) \ {name} |-> el.attrs[n]]]

\* The body of the for loop over allEls, for one element.
stripElement(el) ==
    LET noHandlers ==
            [el EXCEPT !.attrs =
                [n \in {m \in DOMAIN el.attrs : ~startsWithOn(m)} |-> el.attrs[n]]]
        kept == {n \in DOMAIN noHandlers.attrs :
                    ~(n \in urlAttrs /\ matchesJavascript(noHandlers.attrs[n]))}
    IN [noHandlers EXCEPT !.attrs = [n \in kept |-> noHandlers.attrs[n]]]

\* sanitizeHTML(raw): the document without its dangerous elements and
\* meta[http-equiv], every element left stripped.
sanitizeHTML(raw) ==
    LET survives(el) ==
            /\ el.tag \notin dangerous
            /\ ~(el.tag = "meta" /\ "http-equiv" \in DOMAIN el.attrs)
        left == SelectSeq(raw, survives)
    IN [i \in 1..Len(left) |-> stripElement(left[i])]

\* iframe.srcdoc = ''
NoSrcdoc == [csp |-> FALSE, body |-> <<>>]

\* The preview page with a document pasted in its input box.
PreviewPage(raw) ==
    [value |-> raw, srcdoc |-> NoSrcdoc,
     status |-> "Paste HTML into the input box."]

\* render(): the click listener of btnRender.
htmlRender(page) ==
    IF page.value = <<>>
    THEN [page EXCEPT !.srcdoc = NoSrcdoc,
                      !.status = "Paste HTML into the input box."]
    ELSE [page EXCEPT !.srcdoc = [csp |-> TRUE, body |-> sanitizeHTML(page.value)],
                      !.status = "Rendered (sanitized)."]

\* The click listener of btnClear.
htmlClear(page) ==
    [page EXCEPT !.value = <<>>, !.srcdoc = NoSrcdoc, !.status = ""]

RenderInit ==
    /\ \E raw \in PastedDocs : dom = PreviewPage(raw)
    /\ cfg = <<>> /\ state = <<>>
    /\ now = 0 /\ pageVisible = TRUE /\ panelHidden = FALSE /\ toggles = 0
    /\ snapshots = <<>> /\ raf = 0
    /\ ap = createVisualizationAutoplaySkill(FALSE, 0)
    /\ obs = NoObs

RenderClick ==
    /\ dom' = htmlRender(dom)
    /\ UNCHANGED <<now, pageVisible, panelHidden, toggles, cfg, snapshots, state, raf, ap, obs>>

ClearClick ==
    /\ dom' = htmlClear(dom)
    /\ UNCHANGED <<now, pageVisible, panelHidden, toggles, cfg, snapshots, state, raf, ap, obs>>

RenderNext == RenderClick \/ ClearClick

SpecRender == RenderInit /\ [][RenderNext]_vars

\* A javascript: URL or a data:text/html URL: after leading white space,
\* the scheme, the colon and, for data:, the media type.
DangerousUrl(val) ==
    LET i == skipSpace(val, 1)
        j == skipSpace(val, i + 1)
    IN /\ j <= Len(val)
       /\ val[j] = ":"
       /\ \/ toLower(val[i]) = "javascript"
          \/ /\ toLower(val[i]) = "data"
             /\ j + 1 <= Len(val)
             /\ toLower(val[j + 1]) = "text/html"

\* C22: no element of the document placed in the iframe srcdoc keeps an
\* href or src attribute whose value is a javascript: URL or a
\* data:text/html URL.
C22_NoDangerousUrl ==
    \A i \in 1..Len(dom.srcdoc.body) :
        \A n \in (DOMAIN dom.srcdoc.body[i].attrs) \cap {"href", "src"} :
            ~DangerousUrl(dom.srcdoc.body[i].attrs[n])

\* C23 as stated: nothing cancels a transition, so a transition that ends
\* leaves stepIndex at its target index.
C23_RunsToCompletion ==
    [][(cfg.listening /\ state.animation.active /\ ~state'.animation.active) =>
          state'.stepIndex = state.animation.toIndex]_vars

\* C23: while a transition is in flight the session changes in three ways
\* only: the transition goes on, with the same target and start and stepIndex
\* where it was (further step requests are refused); it lands, stepIndex
\* becoming its target over the same sequence; or a reset cancels it, leaving
\* stepIndex at 0 and no transition.
C23_EndsAtTargetOrReset ==
    [][(cfg.listening /\ state.animation.active /\ state' # state) =>
          \/ /\ state'.animation.active
             /\ state'.animation.toIndex = state.animation.toIndex
             /\ state'.animation.startTs = state.animation.startTs
             /\ state'.stepIndex = state.stepIndex
             /\ snapshots' = snapshots
          \/ /\ ~state'.animation.active
             /\ state'.stepIndex = state.animation.toIndex
             /\ snapshots' = snapshots
          \/ /\ ~state'.animation.active
             /\ state'.stepIndex = 0
             /\ \E built \in Rebuilds(cfg.rebuildSnapshotsOnReset) :
                    /\ ~(cfg.rebuildSnapshotsOnReset /\ Unusable(built))
                    /\ snapshots' = IF cfg.rebuildSnapshotsOnReset
                                    THEN built.items ELSE snapshots]_vars

\* A reset has cancelled a transition whose frame callback is still queued.
C23_Witness ==
    /\ cfg.listening /\ ~state.animation.active /\ raf = 1

\* C24: whenever the engine waits for the next event the controls show the
\* session state: the backward control is disabled iff stepIndex <= 0 or a
\* transition is in flight, the forward control iff stepIndex >= N-1 or a
\* transition is in flight.
C24_ControlsMatchState ==
    cfg.listening =>
        /\ dom.prevDisabled <=> (state.stepIndex <= 0 \/ state.animation.active)
        /\ dom.nextDisabled <=> (state.stepIndex >= LastIndex \/ state.animation.active)

\* The status text a render writes for sequence sn and session st: the
\* description of the target snapshot while a transition is in flight, of the
\* snapshot at stepIndex otherwise, with the counter [stepIndex/(N-1)] past
\* the first step and no counter on it.
StatusOf(sn, st) ==
    [label |-> IF st.stepIndex > 0 THEN <<st.stepIndex, Len(sn) - 1>> ELSE NoLabel,
     text |-> sn[(IF st.animation.active THEN st.animation.toIndex ELSE st.stepIndex) + 1],
     message |-> ""]

\* C25: a render in any state of a running session writes the active
\* snapshot's description, prefixed with the counter exactly when stepIndex is
\* past 0, and every change of the status text made by a handler is to the
\* status of the session the handler leaves.
C25_StatusAfterRender ==
    /\ [](cfg.listening => render(Engine).dom.statusText = StatusOf(snapshots, state))
    /\ [][(cfg.listening /\ dom'.statusText # dom.statusText) =>
             dom'.statusText = StatusOf(snapshots', state')]_vars

\* A frame tick has rendered a transition in flight past the first step: the
\* text is the target's, the counter the step the session stands on.
C25_Witness ==
    /\ cfg.listening /\ state.animation.active /\ state.stepIndex >= 1
    /\ dom.statusText = StatusOf(snapshots, state)
    /\ dom.statusText.text # snapshots[state.stepIndex + 1]

\* C26: whenever a transition is in flight its target is the snapshot after
\* the current one, within the current sequence: toIndex = stepIndex + 1 and
\* toIndex <= snapshots.length - 1, resets that rebuild a sequence of another
\* length included.
C26_TargetIsAdjacent ==
    (cfg.listening /\ state.animation.active) =>
        /\ state.animation.toIndex = state.stepIndex + 1
        /\ state.animation.toIndex <= Len(snapshots) - 1

\* Rebuild mode: a reset has replaced the sequence by a shorter one while a
\* transition was in flight, and a new transition runs over the new sequence
\* with the old one's frame callback still queued.
C26_Witness ==
    /\ cfg.listening /\ cfg.rebuildSnapshotsOnReset
    /\ state.animation.active /\ raf = 2
    /\ Len(snapshots) < MaxLen

\* C27: a rebuild-mode reset whose factory returns an empty array or a
\* non-array is a complete no-op, from the button, the r key and autoplay's
\* onReset alike: the sequence, stepIndex, the transition in flight, the frame
\* queue and everything a render writes (status text, error mark, controls) are
\* as they were.
C27_UnusableRebuildNoOp ==
    (cfg.listening /\ cfg.rebuildSnapshotsOnReset) =>
        \A built \in {b \in BuildOutputs : Unusable(b)} :
            /\ resetToStart(Engine, TRUE, built) = Engine
            /\ onReset(Engine, built) = Engine
            /\ \A key \in ResetKeys, tag \in Tags :
                   keydown(Engine, key, tag, now, built) = Engine

\* Rebuild mode, a transition just started past the first index: the controls
\* still show the state before the step, so a render would change them.
C27_Witness ==
    /\ cfg.listening /\ cfg.rebuildSnapshotsOnReset
    /\ state.stepIndex >= 1 /\ state.animation.active
    /\ render(Engine) # Engine

\* C28: a frame callback left queued by a transition that a reset cancelled
\* never moves stepIndex by itself.  Run with no transition active it changes
\* nothing; with a new transition started before it runs, the callbacks
\* queued move stepIndex once only, to the new transition's target and not
\* before that transition's animationMs have passed: a callback that leaves the
\* queue either changes nothing or lands the transition in flight.
C28_StaleFrameHarmless ==
    /\ []((cfg.listening /\ ~state.animation.active) => tick(Engine, now) = Engine)
    /\ [][(cfg.listening /\ raf' < raf) =>
             \/ UNCHANGED <<state, snapshots, dom>>
             \/ /\ state.animation.active
                /\ now - state.animation.startTs >= animationMs
                /\ state'.stepIndex = state.animation.toIndex
                /\ state'.stepIndex = state.stepIndex + 1
                /\ ~state'.animation.active
                /\ snapshots' = snapshots]_vars

\* A reset cancelled a transition and a new one was started before the old
\* frame callback ran: two callbacks are queued and the new transition is due.
C28_Witness ==
    /\ cfg.listening /\ raf = 2 /\ state.animation.active
    /\ now - state.animation.startTs >= animationMs

\* Longest stall of the autoplay timer looked at, in ms.
MaxStall == 100000

\* How late past its due time the autoplay timer may fire.
Stalls == {0, TICK_MS, DT_CAP - TICK_MS, DT_CAP, stepInterval, MaxStall}

\* C29: an autoplay tick, however late it fires, invokes at most one of onStep
\* and onReset: the engine it leaves is the engine as it was, or after one
\* onStep, or after one onReset.  The time since the previous tick counts for
\* at most 250 ms, a step or reset needs a full step interval accumulated from
\* such capped deltas, and the accumulator is below one step interval after
\* every tick, so the ticks after a stall find no backlog to catch up on.
C29_NoCatchUpBurst ==
    TimerPending =>
        /\ ap.acc < stepInterval
        /\ \A stall \in Stalls, built \in Rebuilds(cfg.rebuildSnapshotsOnReset) :
               LET ts == Max(now, ap.due) + stall
                   r == loop(ap, Engine, ts, isActive, built)
               IN /\ r.e \in {Engine, onStep(Engine, ts), onReset(Engine, built)}
                  /\ r.ap.acc < stepInterval
                  /\ r.ap.acc <= ap.acc + DT_CAP
                  /\ r.e # Engine =>
                         /\ ap.prev > 0
                         /\ ap.acc + Min(DT_CAP, ts - ap.prev) >= stepInterval
                  /\ loop(r.ap, r.e, ts + TICK_MS, isActive, built).e \in
                         {r.e} \cup (IF r.e = Engine
                                     THEN {onStep(Engine, ts + TICK_MS), onReset(Engine, built)}
                                     ELSE {})

\* Autoplay on an idle, active session short of a step interval by more than a
\* timer period and less than the cap: a tick on time would not step, a tick
\* after a stall of any length steps once.
C29_Witness ==
    /\ TimerPending /\ isActive /\ ~isBusy(Engine) /\ ~isDone(Engine)
    /\ ap.prev > 0 /\ now >= ap.pauseUntil
    /\ ap.acc + TICK_MS < stepInterval /\ stepInterval <= ap.acc + DT_CAP
    /\ loop(ap, Engine, ap.due + MaxStall, isActive, NotCalled).e = onStep(Engine, ap.due + MaxStall)
    /\ loop(ap, Engine, ap.due + MaxStall, isActive, NotCalled).e # Engine

\* ---------------------------------------------------------------------
\* The LRU cache simulation (src/visualizations/lru-cache.js,
\* buildSnapshots).  The nodes of the doubly linked list are named by
\* number: the dummy head, the dummy tail, and for each key the node
\* that holds it.  state holds the list's pointers, the values, the map's
\* keys and whether the run is over; dom holds the snapshot pushed last;
\* obs holds the keys in order of last use, most recent first, kept
\* beside the code's structures as the reference.
\* ---------------------------------------------------------------------

\* Keys and values the operations draw from.
MaxKey == 6
MaxValue == 2

capacity == 5

head == 0
tail == MaxKey + 1
null == -1
Miss == -1

LruKeys == 1..MaxKey
LruValues == 1..MaxValue
LruNodes == {head, tail} \cup LruKeys

\* The operations generateOps can emit.
LruOps ==
    {[type |-> "get", key |-> k, value |-> null] : k \in LruKeys}
        \cup {[type |-> "put", key |-> k, value |-> v] : k \in LruKeys, v \in LruValues}

NoOp == [type |-> "none", key |-> null, value |-> null]

\* head.next = tail; tail.prev = head; map = new Map()
EmptyCache ==
    [next |-> [n \in LruNodes |-> IF n = head THEN tail ELSE null],
     prev |-> [n \in LruNodes |-> IF n = tail THEN head ELSE null],
     value |-> [n \in LruNodes |-> null],
     map |-> {},
     done |-> FALSE]

\* makeNode(key, value): a fresh node, unlinked.
makeNode(c, key, value) ==
    [c EXCEPT !.next[key] = null, !.prev[key] = null, !.value[key] = value]

remove(c, node) ==
    LET p == c.prev[node]
        n == c.next[node]
    IN [c EXCEPT !.next[p] = n, !.prev[n] = p]

insertAfterHead(c, node) ==
    LET c1 == [c EXCEPT !.next[node] = c.next[head]]
        c2 == [c1 EXCEPT !.prev[node] = head]
        c3 == [c2 EXCEPT !.prev[c2.next[head]] = node]
    IN [c3 EXCEPT !.next[head] = node]

\* The walk of listOrder() from cur, given up after fuel nodes.
RECURSIVE walk(_, _, _)
walk(c, cur, fuel) ==
    IF cur = tail \/ cur \notin LruNodes \/ fuel = 0 THEN <<>>
    ELSE <<[key |-> cur, value |-> c.value[cur]]>> \o walk(c, c.next[cur], fuel - 1)

listOrder(c) == walk(c, c.next[head], MaxKey + 2)

\* The rows of mapView(): the map's keys with their nodes' values.
mapView(c) == {[key |-> k, value |-> c.value[k]] : k \in c.map}

\* const victim = tail.prev, and the most recently used node in its place.
victim_MostRecent(c) == c.next[head]
victim(c) == c.prev[tail]

\* The snapshot pushed at the end of one pass of the loop over ops.
snapshotOf(c, op, result, evictedKey, activeAction) ==
    [capacity |-> capacity, op |-> op, result |-> result, evictedKey |-> evictedKey,
     activeAction |-> activeAction, listOrder |-> listOrder(c), mapView |-> mapView(c),
     activeKey |-> op.key]

\* One pass of the loop for a get.
lruGet(c, op) ==
    IF op.key \in c.map
    THEN LET c1 == insertAfterHead(remove(c, op.key), op.key)
         IN [c |-> c1, snap |-> snapshotOf(c1, op, c.value[op.key], null, "Hit")]
    ELSE [c |-> c, snap |-> snapshotOf(c, op, Miss, null, "Miss")]

\* One pass of the loop for a put.  A node taken out of the map is garbage;
\* its fields are cleared.
lruPut(c, op) ==
    IF op.key \in c.map
    THEN LET c1 == [c EXCEPT !.value[op.key] = op.value]
             c2 == insertAfterHead(remove(c1, op.key), op.key)
         IN [c |-> c2, snap |-> snapshotOf(c2, op, null, null, "Updated")]
    ELSE LET full == Cardinality(c.map) >= capacity
             v == victim(c)
             c1 == IF full
                   THEN LET r == remove(c, v)
                        IN [r EXCEPT !.map = @ \ {v}, !.next[v] = null,
                                     !.prev[v] = null, !.value[v] = null]
                   ELSE c
             c2 == insertAfterHead(makeNode(c1, op.key, op.value), op.key)
             c3 == [c2 EXCEPT !.map = @ \cup {op.key}]
         IN [c |-> c3,
             snap |-> snapshotOf(c3, op, null, IF full THEN v ELSE null, "Inserted")]

\* The key used now in front of the others, the list no longer than cap.
Touch(mru, key, cap) ==
    LET rest == SelectSeq(mru, LAMBDA k : k # key)
        all == <<key>> \o rest
    IN SubSeq(all, 1, Min(Len(all), cap))

LruInit ==
    /\ state = EmptyCache
    /\ dom = [snapshotOf(EmptyCache, NoOp, null, null, "none") EXCEPT !.activeKey = null]
    /\ obs = <<>>
    /\ cfg = <<>>
    /\ now = 0 /\ pageVisible = TRUE /\ panelHidden = FALSE /\ toggles = 0
    /\ snapshots = <<>> /\ raf = 0
    /\ ap = createVisualizationAutoplaySkill(FALSE, 0)

LruBecomes(r) ==
    /\ state' = r.c
    /\ dom' = r.snap
    /\ UNCHANGED <<now, pageVisible, panelHidden, toggles, cfg, snapshots, raf, ap>>

\* ops[oi] is a get.
LruGet ==
    /\ ~state.done
    /\ \E op \in {o \in LruOps : o.type = "get"} :
           /\ LruBecomes(lruGet(state, op))
           /\ obs' = IF op.key \in state.map THEN Touch(obs, op.key, capacity) ELSE obs

\* ops[oi] is a put.
LruPut ==
    /\ ~state.done
    /\ \E op \in {o \in LruOps : o.type = "put"} :
           /\ LruBecomes(lruPut(state, op))
           /\ obs' = Touch(obs, op.key, capacity)

\* The loop is over: the closing snapshot is pushed.
LruDone ==
    /\ ~state.done /\ dom.op # NoOp
    /\ state' = [state EXCEPT !.done = TRUE]
    /\ dom' = [dom EXCEPT !.op = NoOp, !.evictedKey = null, !.activeKey = null]
    /\ UNCHANGED <<now, pageVisible, panelHidden, toggles, cfg, snapshots, raf, ap, obs>>

LruNext == LruGet \/ LruPut \/ LruDone

SpecLru == LruInit /\ [][LruNext]_vars

\* The keys of a list of rows, in order.
KeysOf(rows) == [i \in 1..Len(rows) |-> rows[i].key]

\* The walk from the dummy tail along prev, given up after fuel nodes.
RECURSIVE walkBack(_, _, _)
walkBack(c, cur, fuel) ==
    IF cur = head \/ cur \notin LruNodes \/ fuel = 0 THEN <<>>
    ELSE walkBack(c, c.prev[cur], fuel - 1) \o <<cur>>

\* C30: after every get and put the map holds at most capacity keys; the
\* list between the dummy head and the dummy tail, walked along next and
\* along prev alike, holds exactly the map's keys, each once, from the most to
\* the least recently used, and so does the snapshot pushed; and a put of a
\* new key into a full cache evicts exactly the node before the dummy tail,
\* the least recently used key, and no other put or get evicts anything.
C30_LruInvariants ==
    /\ [](/\ Cardinality(state.map) <= capacity
          /\ KeysOf(listOrder(state)) = obs
          /\ walkBack(state, state.prev[tail], MaxKey + 2) = obs
          /\ {obs[i] : i \in 1..Len(obs)} = state.map
          /\ Len(obs) = Cardinality(state.map)
          /\ KeysOf(dom.listOrder) = obs
          /\ {r.key : r \in dom.mapView} = state.map)
    /\ [][(state'.map # state.map \/ dom'.evictedKey # null) =>
             LET new == dom'.op.key
             IN /\ dom'.op.type = "put" /\ new \notin state.map
                /\ IF Cardinality(state.map) >= capacity
                   THEN /\ dom'.evictedKey = obs[Len(obs)]
                        /\ dom'.evictedKey = state.prev[tail]
                        /\ state'.map = (state.map \ {dom'.evictedKey}) \cup {new}
                   ELSE /\ dom'.evictedKey = null
                        /\ state'.map = state.map \cup {new}]_vars

\* A put of a new key found the cache full and evicted a key that had been
\* moved behind the others by gets and puts of the keys after it.
C30_Witness ==
    /\ dom.evictedKey # null /\ dom.activeAction = "Inserted"
    /\ Cardinality(state.map) = capacity
    /\ \E i \in 1..(Len(obs) - 1) : obs[i] > obs[i + 1]
    /\ \E i \in 1..(Len(obs) - 1) : obs[i] < obs[i + 1]

====
